---- MODULE Spec2Model ----
(***************************************************************************)
(* Model of pkg/monitoring/metrics/virt-controller/metrics.go (KubeVirt):  *)
(* the package-level references, SetupMetrics, RegisterLeaderMetrics,      *)
(* UpdateVMIMigrationInformer, PhaseTransitionTimeBuckets and              *)
(* getTransitionTimeSeconds.                                               *)
(*                                                                         *)
(* Time is scaled: a time.Duration is a signed integer of DurationBits     *)
(* bits (64 in Go) counting ticks, Second ticks to the second (10^9 in     *)
(* Go).  A float64 number of seconds x is the integer x * FloatOne, so     *)
(* that halves of a second are representable; float64 rounding is not      *)
(* modelled.  Timestamps carry a wall-clock reading only (sec, nsec), as   *)
(* metav1.Time values read from API objects do.                            *)
(***************************************************************************)
EXTENDS Integers, Sequences, FiniteSets, TLC

VARIABLES
    \* the package-level references (metrics.go, var block)
    vmInformer, vmiInformer, persistentVolumeClaimInformer,
    vmiMigrationInformer, kvPodInformer, clusterConfig, vmApplier,
    instancetypeStore, clusterInstancetypeStore, preferenceStore,
    clusterPreferenceStore, controllerRevision,
    \* the metrics registry: the names registered with it
    registry,
    \* the last operation called, with its arguments and what it returned
    lastOp,
    \* the arguments of getTransitionTimeSeconds, its latest and first result
    oldTime, newTime, ttsRet, ttsFirst,
    \* the latest and the previous result of PhaseTransitionTimeBuckets, and
    \* the slice a caller kept from its first call
    bucketsRet, bucketsPrev, heldSlice

refVars == << vmInformer, vmiInformer, persistentVolumeClaimInformer,
              vmiMigrationInformer, kvPodInformer, clusterConfig,
              instancetypeStore, clusterInstancetypeStore, preferenceStore,
              clusterPreferenceStore, controllerRevision >>

pkgVars == << refVars, vmApplier, registry >>

timeVars == << oldTime, newTime, ttsRet, ttsFirst >>

bucketVars == << bucketsRet, bucketsPrev, heldSlice >>

vars == << pkgVars, lastOp, timeVars, bucketVars >>

\* ------------------------------------------------------------------------
\* Bounds of the model

\* width of time.Duration (int64 in Go)
DurationBits == 16

\* ticks per second (time.Second is 10^9 nanoseconds in Go)
Second == 2

\* number of distinct argument bundles a caller may hand to SetupMetrics
NumBundles == 2

\* at most this many registration steps are rejected during one SetupMetrics
MaxRejects == 2

\* ------------------------------------------------------------------------
\* package time

Minute == 60 * Second

Hour == 60 * Minute

maxDuration == 2 ^ (DurationBits - 1) - 1

minDuration == -(2 ^ (DurationBits - 1))

\* two's complement wrap-around of an integer into the Duration range
Wrap(x) == ((x - minDuration) % (2 ^ DurationBits)) + minDuration

\* Go's integer division and remainder truncate toward zero
Quot(a, b) == IF a >= 0 THEN a \div b ELSE -((-a) \div b)

Rem(a, b) == a - b * Quot(a, b)

\* the float64 1.0, in the fixed-point unit of the model
FloatOne == 2 * Second

\* func (d Duration) Seconds() float64:
\*   sec := d / Second; nsec := d % Second; float64(sec) + float64(nsec)/1e9
Seconds(d) == Quot(d, Second) * FloatOne + (Rem(d, Second) * FloatOne) \div Second

\* a float64 literal num/den multiplied by x
FMul(num, den, x) == (num * x) \div den

\* the absent timestamp (a nil *metav1.Time)
Nil == [nil |-> TRUE]

MkTime(s, n) == [sec |-> s, nsec |-> n]

\* func (t Time) Add(d Duration) Time
TimeAdd(t, d) ==
    LET dsec == Quot(d, Second)
        nsec == t.nsec + Rem(d, Second)
    IN  IF nsec >= Second THEN MkTime(t.sec + dsec + 1, nsec - Second)
        ELSE IF nsec < 0 THEN MkTime(t.sec + dsec - 1, nsec + Second)
        ELSE MkTime(t.sec + dsec, nsec)

\* func (t Time) Before(u Time) bool
TimeBefore(t, u) == t.sec < u.sec \/ (t.sec = u.sec /\ t.nsec < u.nsec)

\* func (t Time) Sub(u Time) Duration: the difference, computed in the width
\* of Duration, saturated at minDuration / maxDuration when it overflowed
TimeSub(t, u) ==
    LET d == Wrap(Wrap((t.sec - u.sec) * Second) + (t.nsec - u.nsec))
    IN  IF TimeAdd(u, d) = t THEN d
        ELSE IF TimeBefore(t, u) THEN minDuration
        ELSE maxDuration

\* a nil informer, store, config or client reference
NilRef == << >>

\* ------------------------------------------------------------------------
\* getTransitionTimeSeconds

NoError == [err |-> "nil"]

\* %v of a *metav1.Time: "<nil>" for a nil pointer, else the time
FmtTime(t) == IF t = Nil THEN [str |-> "<nil>"] ELSE t

\* fmt.Errorf("missing phase transition timestamp, newTime: %v, oldTime: %v", ...)
MissingTimestampError(newT, oldT) ==
    [msg |-> "missing phase transition timestamp",
     newTime |-> FmtTime(newT), oldTime |-> FmtTime(oldT)]

getTransitionTimeSecondsNoFloor(oldT, newT) ==
    IF newT = Nil \/ oldT = Nil
    THEN [value |-> 0, err |-> MissingTimestampError(newT, oldT)]
    ELSE [value |-> Seconds(TimeSub(newT, oldT)), err |-> NoError]

getTransitionTimeSecondsNewOnly(oldT, newT) ==
    IF newT = Nil
    THEN [value |-> 0, err |-> MissingTimestampError(newT, oldT)]
    ELSE IF oldT = Nil THEN [value |-> 0, err |-> NoError]
    ELSE LET diffSeconds == Seconds(TimeSub(newT, oldT))
         IN  [value |-> IF diffSeconds < 0 THEN 0 ELSE diffSeconds, err |-> NoError]

getTransitionTimeSecondsSwapped(oldT, newT) ==
    IF newT = Nil \/ oldT = Nil
    THEN [value |-> 0, err |-> MissingTimestampError(newT, oldT)]
    ELSE LET diffSeconds == Seconds(TimeSub(oldT, newT))
         IN  [value |-> IF diffSeconds < 0 THEN 0 ELSE diffSeconds, err |-> NoError]

getTransitionTimeSecondsReadsConfig(oldT, newT) ==
    IF clusterConfig = NilRef
    THEN getTransitionTimeSecondsNoFloor(oldT, newT)
    ELSE getTransitionTimeSecondsSwapped(oldT, newT)

getTransitionTimeSeconds(oldT, newT) ==
    IF newT = Nil \/ oldT = Nil
    THEN [value |-> 0, err |-> MissingTimestampError(newT, oldT)]
    ELSE LET diffSeconds == Seconds(TimeSub(newT, oldT))
         IN  [value |-> IF diffSeconds < 0 THEN 0 ELSE diffSeconds, err |-> NoError]

\* ------------------------------------------------------------------------
\* PhaseTransitionTimeBuckets

PhaseTransitionTimeBucketsMinutesAsSeconds ==
    << FMul(1, 2, Seconds(Second)), FMul(1, 1, Seconds(Second)),
       FMul(2, 1, Seconds(Second)), FMul(5, 1, Seconds(Second)),
       FMul(10, 1, Seconds(Second)), FMul(20, 1, Seconds(Second)),
       FMul(30, 1, Seconds(Second)), FMul(40, 1, Seconds(Second)),
       FMul(50, 1, Seconds(Second)), FMul(60, 1, Seconds(Second)),
       FMul(90, 1, Seconds(Second)), FMul(2, 1, Seconds(Second)),
       FMul(3, 1, Seconds(Second)), FMul(5, 1, Seconds(Second)),
       FMul(10, 1, Seconds(Second)), FMul(20, 1, Seconds(Second)),
       FMul(30, 1, Seconds(Second)), FMul(1, 1, Seconds(Hour)) >>

PhaseTransitionTimeBuckets ==
    << FMul(1, 2, Seconds(Second)), FMul(1, 1, Seconds(Second)),
       FMul(2, 1, Seconds(Second)), FMul(5, 1, Seconds(Second)),
       FMul(10, 1, Seconds(Second)), FMul(20, 1, Seconds(Second)),
       FMul(30, 1, Seconds(Second)), FMul(40, 1, Seconds(Second)),
       FMul(50, 1, Seconds(Second)), FMul(60, 1, Seconds(Second)),
       FMul(90, 1, Seconds(Second)), FMul(2, 1, Seconds(Minute)),
       FMul(3, 1, Seconds(Minute)), FMul(5, 1, Seconds(Minute)),
       FMul(10, 1, Seconds(Minute)), FMul(20, 1, Seconds(Minute)),
       FMul(30, 1, Seconds(Minute)), FMul(1, 1, Seconds(Hour)) >>

\* ------------------------------------------------------------------------
\* The collaborators handed to SetupMetrics, and the registry

\* vmApplier before SetupMetrics built one
NilApplier == [nil |-> TRUE]

Bundles == 1 .. NumBundles

\* the Informers struct a caller fills in
InformersOf(b) ==
    [Vm |-> <<"Vm", b>>, Vmi |-> <<"Vmi", b>>,
     PersistentVolumeClaim |-> <<"PersistentVolumeClaim", b>>,
     VmiMigration |-> <<"VmiMigration", b>>, KvPod |-> <<"KvPod", b>>]

\* the Stores struct a caller fills in
StoresOf(b) ==
    [Instancetype |-> <<"Instancetype", b>>,
     ClusterInstancetype |-> <<"ClusterInstancetype", b>>,
     Preference |-> <<"Preference", b>>,
     ClusterPreference |-> <<"ClusterPreference", b>>,
     ControllerRevision |-> <<"ControllerRevision", b>>]

ClusterConfigOf(b) == <<"ClusterConfig", b>>

ClientsetOf(b) == <<"Clientset", b>>

\* an informer a caller hands to UpdateVMIMigrationInformer
NewMigrationInformer(b) == <<"VmiMigrationRestarted", b>>

\* the package-level references, as one record
Globals ==
    [vmInformer |-> vmInformer, vmiInformer |-> vmiInformer,
     persistentVolumeClaimInformer |-> persistentVolumeClaimInformer,
     vmiMigrationInformer |-> vmiMigrationInformer,
     kvPodInformer |-> kvPodInformer, clusterConfig |-> clusterConfig,
     vmApplier |-> vmApplier,
     instancetypeStore |-> instancetypeStore,
     clusterInstancetypeStore |-> clusterInstancetypeStore,
     preferenceStore |-> preferenceStore,
     clusterPreferenceStore |-> clusterPreferenceStore,
     controllerRevision |-> controllerRevision]

\* var metrics = [][]operatormetrics.Metric{...}: the definition groups, in order
metrics ==
    << "componentMetrics", "migrationMetrics", "perfscaleMetrics",
       "vmiMetrics", "vmSnapshotMetrics" >>

\* the collectors handed to operatormetrics.RegisterCollector, in order
collectors ==
    << "migrationStatsCollector", "vmiStatsCollector", "vmStatsCollector" >>

leaderMetrics == << "leaderMetrics" >>

\* the error the registry gives when it rejects an item
RegistrationError(item) == [err |-> "rejected", item |-> item]

\* The registry registering items in the order given: it stops at the first
\* item it rejects and returns that error; what was registered stays so.
RECURSIVE Register(_, _, _)
Register(reg, items, rejects) ==
    IF items = << >>
    THEN [registry |-> reg, attempted |-> << >>, err |-> NoError]
    ELSE IF Head(items) \in rejects
    THEN [registry |-> reg, attempted |-> << Head(items) >>,
          err |-> RegistrationError(Head(items))]
    ELSE LET r == Register(reg \cup {Head(items)}, Tail(items), rejects)
         IN  [r EXCEPT !.attempted = << Head(items) >> \o @]

\* find.NewSpecFinder / preferenceFind.NewSpecFinder
NewSpecFinder(store, clusterStore, revisionStore, clientset) ==
    [store |-> store, clusterStore |-> clusterStore,
     revisionStore |-> revisionStore, clientset |-> clientset]

\* apply.NewVMApplier
NewVMApplier(instancetypeFinder, preferenceFinder) ==
    [instancetypeFinder |-> instancetypeFinder,
     preferenceFinder |-> preferenceFinder]

\* ------------------------------------------------------------------------
\* SetupMetrics, RegisterLeaderMetrics, UpdateVMIMigrationInformer
\* Each takes the package state (g, reg) and gives the state it leaves,
\* what it returns and the registrations it attempted, in order.

\* SetupMetrics, lines 91-117: the references it stores and the applier it builds
StoredGlobalsSwapsInformers(informers, stores, virtClusterConfig, clientset) ==
    [vmInformer |-> informers.Vmi,
     vmiInformer |-> informers.Vm,
     persistentVolumeClaimInformer |-> informers.PersistentVolumeClaim,
     vmiMigrationInformer |-> informers.VmiMigration,
     kvPodInformer |-> informers.KvPod,
     clusterConfig |-> virtClusterConfig,
     instancetypeStore |-> stores.Instancetype,
     clusterInstancetypeStore |-> stores.ClusterInstancetype,
     preferenceStore |-> stores.Preference,
     clusterPreferenceStore |-> stores.ClusterPreference,
     controllerRevision |-> stores.ControllerRevision,
     vmApplier |-> NewVMApplier(
         NewSpecFinder(stores.Instancetype, stores.ClusterInstancetype,
                       stores.ControllerRevision, clientset),
         NewSpecFinder(stores.Preference, stores.ClusterPreference,
                       stores.ControllerRevision, clientset))]

StoredGlobals(informers, stores, virtClusterConfig, clientset) ==
    [vmInformer |-> informers.Vm,
     vmiInformer |-> informers.Vmi,
     persistentVolumeClaimInformer |-> informers.PersistentVolumeClaim,
     vmiMigrationInformer |-> informers.VmiMigration,
     kvPodInformer |-> informers.KvPod,
     clusterConfig |-> virtClusterConfig,
     instancetypeStore |-> stores.Instancetype,
     clusterInstancetypeStore |-> stores.ClusterInstancetype,
     preferenceStore |-> stores.Preference,
     clusterPreferenceStore |-> stores.ClusterPreference,
     controllerRevision |-> stores.ControllerRevision,
     vmApplier |-> NewVMApplier(
         NewSpecFinder(stores.Instancetype, stores.ClusterInstancetype,
                       stores.ControllerRevision, clientset),
         NewSpecFinder(stores.Preference, stores.ClusterPreference,
                       stores.ControllerRevision, clientset))]

\* SetupMetrics, lines 119-135: client.SetupMetrics, workqueue.SetupMetrics,
\* RegisterMetrics(metrics...), RegisterCollector(...), each error returned
SetupRegistrationIgnoresWorkqueueError(reg, rejects) ==
    LET c == Register(reg, << "clientMetrics" >>, rejects)
        w == Register(c.registry, << "workqueueMetrics" >>, rejects)
        m == Register(w.registry, metrics, rejects)
        k == Register(m.registry, collectors, rejects)
    IN  IF c.err # NoError
        THEN [registry |-> c.registry, ret |-> c.err, attempted |-> c.attempted]
        ELSE IF m.err # NoError
        THEN [registry |-> m.registry, ret |-> m.err,
              attempted |-> c.attempted \o w.attempted \o m.attempted]
        ELSE [registry |-> k.registry, ret |-> k.err,
              attempted |-> c.attempted \o w.attempted \o m.attempted
                            \o k.attempted]

SetupRegistration(reg, rejects) ==
    LET c == Register(reg, << "clientMetrics" >>, rejects)
        w == Register(c.registry, << "workqueueMetrics" >>, rejects)
        m == Register(w.registry, metrics, rejects)
        k == Register(m.registry, collectors, rejects)
    IN  IF c.err # NoError
        THEN [registry |-> c.registry, ret |-> c.err, attempted |-> c.attempted]
        ELSE IF w.err # NoError
        THEN [registry |-> w.registry, ret |-> w.err,
              attempted |-> c.attempted \o w.attempted]
        ELSE IF m.err # NoError
        THEN [registry |-> m.registry, ret |-> m.err,
              attempted |-> c.attempted \o w.attempted \o m.attempted]
        ELSE [registry |-> k.registry, ret |-> k.err,
              attempted |-> c.attempted \o w.attempted \o m.attempted
                            \o k.attempted]

SetupMetricsStoresOnSuccess(g, reg, informers, stores, virtClusterConfig, clientset, rejects) ==
    LET r == SetupRegistration(reg, rejects)
    IN  [globals |-> IF r.ret = NoError
                     THEN StoredGlobals(informers, stores, virtClusterConfig, clientset)
                     ELSE g,
         registry |-> r.registry, ret |-> r.ret, attempted |-> r.attempted]

SetupMetrics(g, reg, informers, stores, virtClusterConfig, clientset, rejects) ==
    LET r == SetupRegistration(reg, rejects)
    IN  [globals |-> StoredGlobals(informers, stores, virtClusterConfig, clientset),
         registry |-> r.registry, ret |-> r.ret, attempted |-> r.attempted]

RegisterLeaderMetricsSwallowsError(g, reg, rejects) ==
    LET l == Register(reg, leaderMetrics, rejects)
    IN  [globals |-> g, registry |-> l.registry, ret |-> NoError,
         attempted |-> l.attempted]

RegisterLeaderMetrics(g, reg, rejects) ==
    LET l == Register(reg, leaderMetrics, rejects)
    IN  IF l.err # NoError
        THEN [globals |-> g, registry |-> l.registry, ret |-> l.err,
              attempted |-> l.attempted]
        ELSE [globals |-> g, registry |-> l.registry, ret |-> NoError,
              attempted |-> l.attempted]

UpdateVMIMigrationInformerWrongField(g, informer) ==
    [g EXCEPT !.vmiInformer = informer]

UpdateVMIMigrationInformer(g, informer) ==
    [g EXCEPT !.vmiMigrationInformer = informer]

\* ------------------------------------------------------------------------
\* The state machine

NotCalled == [called |-> FALSE]

SetGlobals(g) ==
    /\ vmInformer' = g.vmInformer
    /\ vmiInformer' = g.vmiInformer
    /\ persistentVolumeClaimInformer' = g.persistentVolumeClaimInformer
    /\ vmiMigrationInformer' = g.vmiMigrationInformer
    /\ kvPodInformer' = g.kvPodInformer
    /\ clusterConfig' = g.clusterConfig
    /\ vmApplier' = g.vmApplier
    /\ instancetypeStore' = g.instancetypeStore
    /\ clusterInstancetypeStore' = g.clusterInstancetypeStore
    /\ preferenceStore' = g.preferenceStore
    /\ clusterPreferenceStore' = g.clusterPreferenceStore
    /\ controllerRevision' = g.controllerRevision

\* the registration steps of SetupMetrics
SetupSteps ==
    {"clientMetrics", "workqueueMetrics"}
        \cup {metrics[i] : i \in DOMAIN metrics}
        \cup {collectors[i] : i \in DOMAIN collectors}

\* the registration steps of SetupMetrics in the order the code takes them
SetupOrder == << "clientMetrics", "workqueueMetrics" >> \o metrics \o collectors

\* the first of the steps, in that order, that the registry rejects
FirstRejected(rejects) ==
    IF \A i \in DOMAIN SetupOrder : SetupOrder[i] \notin rejects THEN "none"
    ELSE SetupOrder[CHOOSE i \in DOMAIN SetupOrder :
                        /\ SetupOrder[i] \in rejects
                        /\ \A j \in 1 .. (i - 1) : SetupOrder[j] \notin rejects]

\* what the registry may reject during one call of SetupMetrics
RejectSets == {r \in SUBSET SetupSteps : Cardinality(r) <= MaxRejects}

\* a registry that accepts everything, or rejects one definition group, or
\* one collector
FewRejectSets == {{}, {metrics[2]}, {collectors[1]}}

\* the timestamps tried: around zero and around the largest Duration
TimeSecs ==
    {0, 1, maxDuration \div Second, maxDuration \div Second + 1, maxDuration}

AllTimes ==
    {Nil} \cup {MkTime(s, n) : s \in TimeSecs, n \in 0 .. (Second - 1)}

FewTimes == {Nil, MkTime(0, 1), MkTime(1, 0)}

InitWith(times) ==
    /\ vmInformer = NilRef
    /\ vmiInformer = NilRef
    /\ persistentVolumeClaimInformer = NilRef
    /\ vmiMigrationInformer = NilRef
    /\ kvPodInformer = NilRef
    /\ clusterConfig = NilRef
    /\ vmApplier = NilApplier
    /\ instancetypeStore = NilRef
    /\ clusterInstancetypeStore = NilRef
    /\ preferenceStore = NilRef
    /\ clusterPreferenceStore = NilRef
    /\ controllerRevision = NilRef
    /\ registry = {}
    /\ lastOp = [op |-> "none"]
    /\ oldTime \in times
    /\ newTime \in times
    /\ ttsRet = NotCalled
    /\ ttsFirst = NotCalled
    /\ bucketsRet = << >>
    /\ bucketsPrev = << >>
    /\ heldSlice = << >>

SetupMetricsCall(rejectSets) ==
    \E b \in Bundles, rejects \in rejectSets :
        LET out == SetupMetrics(Globals, registry, InformersOf(b), StoresOf(b),
                                ClusterConfigOf(b), ClientsetOf(b), rejects)
        IN  /\ SetGlobals(out.globals)
            /\ registry' = out.registry
            /\ lastOp' = [op |-> "SetupMetrics", bundle |-> b,
                          firstRejected |-> FirstRejected(rejects),
                          ret |-> out.ret, attempted |-> out.attempted]
            /\ UNCHANGED << timeVars, bucketVars >>

RegisterLeaderMetricsCall ==
    \E rejects \in {{}, {leaderMetrics[1]}} :
        LET out == RegisterLeaderMetrics(Globals, registry, rejects)
        IN  /\ SetGlobals(out.globals)
            /\ registry' = out.registry
            /\ lastOp' = [op |-> "RegisterLeaderMetrics", rejects |-> rejects,
                          ret |-> out.ret, attempted |-> out.attempted]
            /\ UNCHANGED << timeVars, bucketVars >>

UpdateVMIMigrationInformerCall ==
    \E b \in Bundles :
        /\ SetGlobals(UpdateVMIMigrationInformer(Globals, NewMigrationInformer(b)))
        /\ lastOp' = [op |-> "UpdateVMIMigrationInformer",
                      informer |-> NewMigrationInformer(b)]
        /\ UNCHANGED << registry, timeVars, bucketVars >>

getTransitionTimeSecondsCall ==
    /\ ttsRet' = getTransitionTimeSeconds(oldTime, newTime)
    /\ ttsFirst' = IF ttsFirst = NotCalled THEN ttsRet' ELSE ttsFirst
    /\ lastOp' = [op |-> "getTransitionTimeSeconds"]
    /\ UNCHANGED << pkgVars, oldTime, newTime, bucketVars >>

PhaseTransitionTimeBucketsCall ==
    /\ bucketsRet' = PhaseTransitionTimeBuckets
    /\ bucketsPrev' = bucketsRet
    /\ heldSlice' = IF heldSlice = << >> THEN bucketsRet' ELSE heldSlice
    /\ lastOp' = [op |-> "PhaseTransitionTimeBuckets"]
    /\ UNCHANGED << pkgVars, timeVars >>

\* a caller overwrites an element of the slice it was given
CallerModifiesSlice ==
    /\ heldSlice # << >>
    /\ heldSlice' = [heldSlice EXCEPT ![1] = 0]
    /\ lastOp' = [op |-> "CallerModifiesSlice"]
    /\ UNCHANGED << pkgVars, timeVars, bucketsRet, bucketsPrev >>

\* every operation, interleaved
Init == InitWith(FewTimes)

Next ==
    \/ SetupMetricsCall(FewRejectSets)
    \/ RegisterLeaderMetricsCall
    \/ UpdateVMIMigrationInformerCall
    \/ getTransitionTimeSecondsCall
    \/ PhaseTransitionTimeBucketsCall
    \/ CallerModifiesSlice

Spec == Init /\ [][Next]_vars

\* registration and the references alone, with every small set of rejections
InitReg == InitWith({Nil})

NextReg ==
    \/ SetupMetricsCall(RejectSets)
    \/ RegisterLeaderMetricsCall
    \/ UpdateVMIMigrationInformerCall

SpecReg == InitReg /\ [][NextReg]_vars

\* getTransitionTimeSeconds alone, over all the timestamps tried
InitTime == InitWith(AllTimes)

NextTime == getTransitionTimeSecondsCall

SpecTime == InitTime /\ [][NextTime]_vars

\* ------------------------------------------------------------------------
\* Properties

Called == ttsRet # NotCalled

BothPresent == oldTime # Nil /\ newTime # Nil

\* newTime - oldTime in ticks, and in seconds, as exact integers
ElapsedTicks == (newTime.sec - oldTime.sec) * Second + (newTime.nsec - oldTime.nsec)

ElapsedSeconds == (ElapsedTicks * FloatOne) \div Second

\* C1 as stated: whenever both timestamps are present and newTime is not
\* before oldTime, the call returns no error and exactly the elapsed seconds.
C1_ExactForEveryPair ==
    (Called /\ BothPresent /\ ElapsedTicks >= 0)
        => (ttsRet.err = NoError /\ ttsRet.value = ElapsedSeconds)

\* C1 amended: with both timestamps present and newTime not before oldTime
\* the call returns no error and the elapsed seconds when the elapsed time
\* fits a Duration, and the seconds of the largest Duration when it does not.
C1_ExactUpToMaxDuration ==
    (Called /\ BothPresent /\ ElapsedTicks >= 0)
        => /\ ttsRet.err = NoError
           /\ ttsRet.value = IF ElapsedTicks <= maxDuration
                             THEN ElapsedSeconds
                             ELSE Seconds(maxDuration)

\* a call with a fractional, positive elapsed time of more than a second
C1_Witness ==
    /\ Called /\ BothPresent
    /\ ElapsedTicks > Second /\ ElapsedTicks <= maxDuration
    /\ ElapsedTicks % Second # 0
    /\ ttsRet.value = ElapsedSeconds

\* C2: with both timestamps present and newTime before oldTime the call
\* returns 0 and no error; with both present the result is never negative.
C2_NegativeClampedToZero ==
    (Called /\ BothPresent)
        => /\ ttsRet.value >= 0
           /\ ElapsedTicks < 0 => (ttsRet.value = 0 /\ ttsRet.err = NoError)

\* a call with newTime before oldTime by more than the smallest Duration
C2_Witness ==
    /\ Called /\ BothPresent
    /\ ElapsedTicks < minDuration
    /\ ttsRet.value = 0

\* C3: the call fails exactly when oldTime or newTime is absent; the error
\* shows each absent value as <nil> and each present one as its time, and
\* the number returned with it is the zero value, never a duration.
C3_ErrorIffMissing ==
    Called
        => /\ (ttsRet.err # NoError) <=> (oldTime = Nil \/ newTime = Nil)
           /\ ttsRet.err # NoError
                => /\ ttsRet.err.msg = "missing phase transition timestamp"
                   /\ (ttsRet.err.oldTime = [str |-> "<nil>"]) <=> (oldTime = Nil)
                   /\ (ttsRet.err.newTime = [str |-> "<nil>"]) <=> (newTime = Nil)
                   /\ oldTime # Nil => ttsRet.err.oldTime = oldTime
                   /\ newTime # Nil => ttsRet.err.newTime = newTime
                   /\ ttsRet.value = 0

\* a failed call with oldTime absent and newTime present
C3_Witness ==
    /\ Called
    /\ oldTime = Nil /\ newTime # Nil
    /\ ttsRet.err # NoError

\* the float64 num/den
Lit(num, den) == (num * FloatOne) \div den

ClaimedLadder ==
    << Lit(1, 2), Lit(1, 1), Lit(2, 1), Lit(5, 1), Lit(10, 1), Lit(20, 1),
       Lit(30, 1), Lit(40, 1), Lit(50, 1), Lit(60, 1), Lit(90, 1), Lit(120, 1),
       Lit(180, 1), Lit(300, 1), Lit(600, 1), Lit(1200, 1), Lit(1800, 1),
       Lit(3600, 1) >>

\* C4: every call of PhaseTransitionTimeBuckets returns the 18 values
\* 0.5 ... 3600, strictly increasing, and the same as the call before it,
\* whatever was called or written to an earlier result in between.
C4_LadderConstant ==
    bucketsRet # << >>
        => /\ bucketsRet = ClaimedLadder
           /\ Len(bucketsRet) = 18
           /\ bucketsRet[1] = Lit(1, 2)
           /\ bucketsRet[18] = Lit(3600, 1)
           /\ \A i \in 1 .. 17 : bucketsRet[i] < bucketsRet[i + 1]
           /\ bucketsPrev # << >> => bucketsPrev = bucketsRet

\* a second call, after the first result was overwritten, after SetupMetrics,
\* RegisterLeaderMetrics and UpdateVMIMigrationInformer
C4_Witness ==
    /\ lastOp.op = "PhaseTransitionTimeBuckets"
    /\ bucketsPrev # << >>
    /\ heldSlice # << >> /\ heldSlice # bucketsRet
    /\ vmInformer # NilRef
    /\ "leaderMetrics" \in registry
    /\ vmiMigrationInformer = NewMigrationInformer(1)

\* the order of the registration steps the claim gives
ClaimedOrder ==
    << "clientMetrics", "workqueueMetrics", "componentMetrics",
       "migrationMetrics", "perfscaleMetrics", "vmiMetrics",
       "vmSnapshotMetrics", "migrationStatsCollector", "vmiStatsCollector",
       "vmStatsCollector" >>

IndexIn(seq, x) == CHOOSE i \in DOMAIN seq : seq[i] = x

Range(seq) == {seq[i] : i \in DOMAIN seq}

\* C5: SetupMetrics attempts its steps in the claimed order; when the
\* registry rejects some, it returns the error of the first rejected one and
\* attempts nothing after it; it returns success only when every step was
\* attempted and registered, the three collectors last.
C5_FirstErrorWins ==
    lastOp.op = "SetupMetrics"
        => /\ IF lastOp.firstRejected = "none"
              THEN /\ lastOp.ret = NoError
                   /\ lastOp.attempted = ClaimedOrder
              ELSE /\ lastOp.ret = RegistrationError(lastOp.firstRejected)
                   /\ lastOp.attempted =
                        SubSeq(ClaimedOrder, 1,
                               IndexIn(ClaimedOrder, lastOp.firstRejected))
           /\ lastOp.ret = NoError
                => /\ Range(ClaimedOrder) \subseteq registry
                   /\ SubSeq(lastOp.attempted, 8, 10) = collectors

\* SetupMetrics failed at the second definition group
C5_Witness ==
    /\ lastOp.op = "SetupMetrics"
    /\ lastOp.firstRejected = "migrationMetrics"
    /\ lastOp.ret = RegistrationError("migrationMetrics")
    /\ "componentMetrics" \in registry
    /\ "perfscaleMetrics" \notin registry

SetupFails == lastOp'.op = "SetupMetrics" /\ lastOp'.ret # NoError

\* the references and the applier SetupMetrics stores when given bundle b
SuppliedGlobals(b) ==
    [vmInformer |-> <<"Vm", b>>, vmiInformer |-> <<"Vmi", b>>,
     persistentVolumeClaimInformer |-> <<"PersistentVolumeClaim", b>>,
     vmiMigrationInformer |-> <<"VmiMigration", b>>,
     kvPodInformer |-> <<"KvPod", b>>,
     clusterConfig |-> <<"ClusterConfig", b>>,
     vmApplier |->
        [instancetypeFinder |->
            [store |-> <<"Instancetype", b>>,
             clusterStore |-> <<"ClusterInstancetype", b>>,
             revisionStore |-> <<"ControllerRevision", b>>,
             clientset |-> <<"Clientset", b>>],
         preferenceFinder |->
            [store |-> <<"Preference", b>>,
             clusterStore |-> <<"ClusterPreference", b>>,
             revisionStore |-> <<"ControllerRevision", b>>,
             clientset |-> <<"Clientset", b>>]],
     instancetypeStore |-> <<"Instancetype", b>>,
     clusterInstancetypeStore |-> <<"ClusterInstancetype", b>>,
     preferenceStore |-> <<"Preference", b>>,
     clusterPreferenceStore |-> <<"ClusterPreference", b>>,
     controllerRevision |-> <<"ControllerRevision", b>>]

\* C6 as stated: a call of SetupMetrics that returns an error leaves the
\* references, the applier and the registry as they were before the call.
C6_NothingRetainedOnError ==
    [][SetupFails => UNCHANGED pkgVars]_vars

\* C6 amended: a call of SetupMetrics that returns an error rolls nothing
\* back: the references and the applier of that call are stored, and every
\* step attempted before the rejected one is registered, besides what was.
C6_PartialStateRetained ==
    [][SetupFails
        => /\ Globals' = SuppliedGlobals(lastOp'.bundle)
           /\ registry' = registry \cup
                (Range(lastOp'.attempted) \ {lastOp'.firstRejected})]_vars

\* SetupMetrics failed at the second definition group: the references of the
\* call are stored and the first group is registered
C6_Witness ==
    /\ lastOp.op = "SetupMetrics"
    /\ lastOp.ret # NoError
    /\ lastOp.firstRejected = "migrationMetrics"
    /\ Globals = SuppliedGlobals(lastOp.bundle)
    /\ registry = {"clientMetrics", "workqueueMetrics", "componentMetrics"}

\* C7 as stated: once SetupMetrics has stored the references, no later
\* operation changes any of them (SetupMetrics itself being called once).
C7_ReferencesNeverChange ==
    [][(vmInformer # NilRef /\ lastOp'.op # "SetupMetrics")
        => UNCHANGED refVars]_vars

OtherRefs(g) == [f \in (DOMAIN g) \ {"vmiMigrationInformer", "vmApplier"} |-> g[f]]

\* C7 amended: SetupMetrics stores exactly the references supplied to it, on
\* every call; afterwards UpdateVMIMigrationInformer changes the migration
\* informer reference and no other, and RegisterLeaderMetrics changes none.
C7_ReferencesChangeOnlyBySetupAndUpdate ==
    [][/\ lastOp'.op = "SetupMetrics"
            => \A f \in DOMAIN Globals' :
                  f # "vmApplier" => Globals'[f] = SuppliedGlobals(lastOp'.bundle)[f]
       /\ lastOp'.op = "UpdateVMIMigrationInformer"
            => OtherRefs(Globals') = OtherRefs(Globals)
       /\ lastOp'.op = "RegisterLeaderMetrics" => UNCHANGED refVars]_vars

\* after SetupMetrics stored the references, UpdateVMIMigrationInformer
\* replaced the migration informer
C7_Witness ==
    /\ lastOp.op = "UpdateVMIMigrationInformer"
    /\ vmInformer = <<"Vm", 1>>
    /\ kvPodInformer = <<"KvPod", 1>>
    /\ vmiMigrationInformer = NewMigrationInformer(2)

LeaderStep == lastOp'.op = "RegisterLeaderMetrics"

\* C8: RegisterLeaderMetrics leaves the references and the applier alone,
\* attempts the leader group only, returns the registry's error unchanged or
\* success, whether or not SetupMetrics ran, and a repeated successful call
\* leaves the registry as the first left it.
C8_LeaderIndependentIdempotent ==
    [][LeaderStep
        => /\ UNCHANGED << refVars, vmApplier >>
           /\ lastOp'.attempted = << "leaderMetrics" >>
           /\ registry' \ {"leaderMetrics"} = registry \ {"leaderMetrics"}
           /\ IF lastOp'.rejects = {}
              THEN /\ lastOp'.ret = NoError
                   /\ "leaderMetrics" \in registry'
              ELSE /\ lastOp'.ret = RegistrationError("leaderMetrics")
                   /\ registry' = registry
           /\ ("leaderMetrics" \in registry /\ lastOp'.ret = NoError)
                => registry' = registry]_vars

\* RegisterLeaderMetrics succeeded after SetupMetrics had succeeded
C8_Witness ==
    /\ lastOp.op = "RegisterLeaderMetrics"
    /\ lastOp.ret = NoError
    /\ vmInformer # NilRef
    /\ registry = Range(ClaimedOrder) \cup {"leaderMetrics"}

PureStep ==
    lastOp'.op \in {"getTransitionTimeSeconds", "PhaseTransitionTimeBuckets"}

\* C9: a call of getTransitionTimeSeconds or PhaseTransitionTimeBuckets
\* leaves the references, the applier and the registry unchanged, and for
\* the same arguments getTransitionTimeSeconds returns what its first call
\* returned, and PhaseTransitionTimeBuckets what its previous call returned,
\* whatever the other operations did in between.
C9_PureUnderInterleaving ==
    [][/\ PureStep => UNCHANGED pkgVars
       /\ ttsRet' # NotCalled => ttsRet' = ttsFirst'
       /\ bucketsPrev' # << >> => bucketsRet' = bucketsPrev']_vars

\* getTransitionTimeSeconds called again after the other operations ran
C9_Witness ==
    /\ lastOp.op = "getTransitionTimeSeconds"
    /\ BothPresent /\ ElapsedTicks < 0
    /\ ttsRet = ttsFirst
    /\ bucketsRet # << >>
    /\ clusterConfig # NilRef
    /\ "leaderMetrics" \in registry
    /\ vmiMigrationInformer = NewMigrationInformer(1)

UpdateStep == lastOp'.op = "UpdateVMIMigrationInformer"

\* C10: UpdateVMIMigrationInformer(informer) sets the migration informer
\* reference to informer, changes nothing else, and can always be called.
C10_UpdateFrame ==
    [][UpdateStep
        => /\ vmiMigrationInformer' = lastOp'.informer
           /\ UNCHANGED << vmInformer, vmiInformer,
                           persistentVolumeClaimInformer, kvPodInformer,
                           clusterConfig, vmApplier, instancetypeStore,
                           clusterInstancetypeStore, preferenceStore,
                           clusterPreferenceStore, controllerRevision,
                           registry >>
           /\ ENABLED UpdateVMIMigrationInformerCall]_vars

\* after SetupMetrics succeeded with bundle 2, the reference is the one given
\* to the last call of UpdateVMIMigrationInformer
C10_Witness ==
    /\ lastOp.op = "UpdateVMIMigrationInformer"
    /\ lastOp.informer = NewMigrationInformer(2)
    /\ vmiMigrationInformer = NewMigrationInformer(2)
    /\ vmiInformer = <<"Vmi", 2>>
    /\ "vmStatsCollector" \in registry

====
